---- MODULE Spec2Model ----
(***************************************************************************)
(* rust/kernel/build_assert.rs: the build_error! and build_assert! macros. *)
(*                                                                         *)
(* A build translates a crate call site by call site.  Each call site is a *)
(* macro invocation; macro_rules transcribes the matching arm, the         *)
(* expansion is either evaluated by the constant evaluator (const context) *)
(* or handed to the optimizer (compiled context), and the object code is   *)
(* finally linked.  The sentinel function build_error has no definition in *)
(* the linked image, so a call to it that survives optimization is an      *)
(* undefined reference.                                                    *)
(***************************************************************************)
EXTENDS Integers, Sequences, FiniteSets, TLC

\* ------------------------------------------------------------------ bounds

\* Call sites translated in one build.
MaxSites == 2
\* Source lines a call site may stand on (1..MaxLine).
MaxLine == 2
\* Bit width of the unsigned integer of the doc example foo (usize, shrunk).
Width == 2

MaxVal == 2 ^ Width - 1

\* ------------------------------------------------------- macro arguments

\* $cond:expr fragments: the tokens the matcher captures, and the text the
\* caller wrote.
Conds ==
    { [tokens |-> <<"N", ">", "1">>, text |-> "N > 1"],
      [tokens |-> <<"ok">>, text |-> "ok"] }

\* $msg:expr fragments: string literals, by value.
Msgs == {"overflow", "too small"}

\* $context:expr fragments: string literals, by value.
Contexts == {"probe"}

\* The matched fragments of an invocation, by metavariable name.  The domain
\* of the function tells which arm matched.
build_error_args == [{} -> Msgs] \cup [{"msg"} -> Msgs]

build_assert_args ==
    [{"cond"} -> Conds]
        \cup { [cond |-> c, msg |-> m] : c \in Conds, m \in Msgs }
        \cup { [cond |-> c, msg |-> m, context |-> x] :
                   c \in Conds, m \in Msgs, x \in Contexts }

Invocations ==
    { [macro |-> "build_error", args |-> a] : a \in build_error_args }
        \cup { [macro |-> "build_assert", args |-> a] : a \in build_assert_args }

\* ---------------------------------------------------- macro_rules engine

\* stringify!: the tokens printed with one space between them; a `$` is
\* printed joined to the identifier that follows it.
RECURSIVE stringify(_)
stringify(toks) ==
    IF toks = <<>> THEN ""
    ELSE IF Len(toks) = 1 THEN toks[1]
    ELSE toks[1] \o (IF toks[1] = "$" THEN "" ELSE " ") \o stringify(Tail(toks))

\* A `$name` in a transcriber: the matched fragment's tokens when the arm
\* binds `name`, else the two tokens `$` `name` are emitted as they stand.
metavar(name, args) ==
    IF name \in DOMAIN args THEN args[name].tokens ELSE <<"$", name>>

\* concat!: the literals joined left to right.
RECURSIVE concat(_)
concat(lits) ==
    IF lits = <<>> THEN "" ELSE Head(lits) \o concat(Tail(lits))

\* The name the sentinel function is called by.
Sentinel == "build_error"

\* Call with a callee the image defines instead of the sentinel.
Call_to_defined(msg) == [callee |-> "panic", arg |-> msg]

\* `$crate::build_error(msg)`: a call expression.
Call(msg) == [callee |-> Sentinel, arg |-> msg]

\* `{{ call }}`: the call, unconditionally.
Block(call) == [guarded |-> FALSE, negated |-> FALSE, call |-> call]

\* `{{ if $cond { call; } }}`: the conditional without its negation.
If(call) == [guarded |-> TRUE, negated |-> FALSE, call |-> call]

\* IfNot with the `!` left out.
IfNot_no_negation(call) == If(call)

\* `{{ if !$cond { call; } }}`.
IfNot(call) == [guarded |-> TRUE, negated |-> TRUE, call |-> call]

\* ------------------------------------------------------------ the macros

\* build_error whose zero-argument arm goes through the one-argument arm's
\* composition with an empty message.
build_error_default_tagged(args) ==
    Block(Call(concat(<<"[Build Error] ",
                        IF DOMAIN args = {} THEN "" ELSE args.msg,
                        " at line: ", stringify(metavar("line", args))>>)))

\* macro_rules! build_error
build_error(args) ==
    IF DOMAIN args = {}
    THEN Block(Call(""))
    ELSE Block(Call(concat(<<"[Build Error] ", args.msg, " at line: ",
                             stringify(metavar("line", args))>>)))

\* build_assert whose two-argument arm tests `$cond` instead of `!$cond`.
build_assert_msg_arm_unnegated(args) ==
    IF DOMAIN args = {"cond"}
    THEN IfNot(Call(concat(<<"assertion failed: ",
                             stringify(metavar("cond", args)),
                             " at line: ",
                             stringify(metavar("line", args))>>)))
    ELSE IF DOMAIN args = {"cond", "msg"}
    THEN If(Call(concat(<<args.msg, " at line: ",
                          stringify(metavar("line", args))>>)))
    ELSE IfNot(Call(concat(<<args.msg, " at line: ",
                             stringify(metavar("line", args)),
                             " - Context: ", args.context>>)))

\* build_assert whose arms call the sentinel without testing the condition.
build_assert_unconditional(args) ==
    IF DOMAIN args = {"cond"}
    THEN Block(Call(concat(<<"assertion failed: ",
                             stringify(metavar("cond", args)),
                             " at line: ",
                             stringify(metavar("line", args))>>)))
    ELSE IF DOMAIN args = {"cond", "msg"}
    THEN Block(Call(concat(<<args.msg, " at line: ",
                             stringify(metavar("line", args))>>)))
    ELSE Block(Call(concat(<<args.msg, " at line: ",
                             stringify(metavar("line", args)),
                             " - Context: ", args.context>>)))

\* build_assert whose three-argument arm puts the context before the line.
build_assert_context_first(args) ==
    IF DOMAIN args = {"cond"}
    THEN IfNot(Call(concat(<<"assertion failed: ",
                             stringify(metavar("cond", args)),
                             " at line: ",
                             stringify(metavar("line", args))>>)))
    ELSE IF DOMAIN args = {"cond", "msg"}
    THEN IfNot(Call(concat(<<args.msg, " at line: ",
                             stringify(metavar("line", args))>>)))
    ELSE IfNot(Call(concat(<<args.msg, " - Context: ", args.context,
                             " at line: ",
                             stringify(metavar("line", args))>>)))

\* macro_rules! build_assert
build_assert(args) ==
    IF DOMAIN args = {"cond"}
    THEN IfNot(Call(concat(<<"assertion failed: ",
                             stringify(metavar("cond", args)),
                             " at line: ",
                             stringify(metavar("line", args))>>)))
    ELSE IF DOMAIN args = {"cond", "msg"}
    THEN IfNot(Call(concat(<<args.msg, " at line: ",
                             stringify(metavar("line", args))>>)))
    ELSE IfNot(Call(concat(<<args.msg, " at line: ",
                             stringify(metavar("line", args)),
                             " - Context: ", args.context>>)))

\* MacroExpand whose message also carries what the condition evaluates to.
MacroExpand_with_value(site) ==
    LET c == IF site.inv.macro = "build_error"
             THEN build_error(site.inv.args)
             ELSE build_assert(site.inv.args)
    IN [c EXCEPT !.call.arg = @ \o " (" \o site.prov \o ")"]

\* The expansion of the invocation standing at a call site.
MacroExpand(site) ==
    IF site.inv.macro = "build_error"
    THEN build_error(site.inv.args)
    ELSE build_assert(site.inv.args)

\* ------------------------------------------------------- the doc example

None == [some |-> FALSE, v |-> 0]
Some(v) == [some |-> TRUE, v |-> v]

\* checked_add that wraps around instead of reporting the overflow.
checked_add_wrapping(a, b) == Some((a + b) % (2 ^ Width))

\* usize::checked_add at the model's width.
checked_add(a, b) == IF a + b > MaxVal THEN None ELSE Some(a + b)

\* fn foo(a) { a.checked_add(1).unwrap_or_else(|| build_error!("overflow")) }
\* The invocation inside foo.
foo_inv == [macro |-> "build_error", args |-> [msg |-> "overflow"]]

\* The value foo returns when the closure is not taken.
foo(a) == checked_add(a, 1)

\* ------------------------------------------------------------ call sites

\* A call site: the invocation, its line, the context it is evaluated in, and
\* what is statically known of the condition that keeps the sentinel call
\* from being reached ($cond for build_assert!, the negation of the enclosing
\* branch for build_error!): provably true, provably false, or not
\* resolvable (it depends on an opaque value).  The constant evaluator knows
\* every value.
PlainSites ==
    { [inv |-> i, line |-> l, ctx |-> "const", prov |-> p, fn |-> "plain", a |-> 0] :
          i \in Invocations, l \in 1..MaxLine, p \in {"true", "false"} }
        \cup
    { [inv |-> i, line |-> l, ctx |-> "compiled", prov |-> p, fn |-> "plain", a |-> 0] :
          i \in Invocations, l \in 1..MaxLine, p \in {"true", "false", "unknown"} }

\* A call foo(a) with a constant argument; foo is #[inline].
FooSites ==
    { [inv |-> foo_inv, line |-> 1, ctx |-> c, prov |-> "arith", fn |-> "foo", a |-> a] :
          c \in {"const", "compiled"}, a \in 0..MaxVal }

Sites == PlainSites \cup FooSites

\* What is statically known of the site's guarding condition.
Provable(site) ==
    IF site.fn = "foo"
    THEN (IF checked_add(site.a, 1).some THEN "true" ELSE "false")
    ELSE site.prov

\* The values the guarding condition can take.
GuardVals(site) ==
    CASE Provable(site) = "true" -> {TRUE}
      [] Provable(site) = "false" -> {FALSE}
      [] OTHER -> BOOLEAN

\* ------------------------------------------------------------- semantics

\* Whether control reaches the expansion when the guarding condition is v:
\* a build_error! stands on the branch taken when the condition fails, a
\* build_assert! is a statement of the enclosing path.
Reached(macro, v) == IF macro = "build_error" THEN ~v ELSE TRUE

\* Whether evaluating the expansion under v executes its call.
Called(macro, code, v) ==
    /\ Reached(macro, v)
    /\ code.guarded => (IF code.negated THEN ~v ELSE v)

\* ------------------------------------------------------------------ state

VARIABLES
    pc,        \* "source": between call sites; "expanded": a call site's
               \* expansion awaits evaluation or code generation; "done"
    cur,       \* the call site being translated: <<site>>, or <<>>
    code,      \* its expansion: <<code>>, or <<>>
    object,    \* the translated call sites so far, in order
    outcome,   \* "building", "success", "const_eval_failure", "link_failure"
    diag,      \* the diagnostic of a failed build: <<[kind, text]>>, or <<>>
    artifact,  \* the linked image: the object code of a successful build,
               \* <<>> while there is none
    eval,      \* the last evaluation of an expansion: <<record>>, or <<>>
    expA,      \* a first expansion of an invocation: <<[site, msg]>>, or <<>>
    expB       \* a second expansion of an invocation, likewise

vars == <<pc, cur, code, object, outcome, diag, artifact, eval, expA, expB>>

build == <<pc, cur, code, object, outcome, diag, artifact, eval>>

Init ==
    /\ pc = "source"
    /\ cur = <<>>
    /\ code = <<>>
    /\ object = <<>>
    /\ outcome = "building"
    /\ diag = <<>>
    /\ artifact = <<>>
    /\ eval = <<>>
    /\ expA = <<>>
    /\ expB = <<>>

\* ------------------------------------------------------- the environment

\* Symbols that have a definition in the linked image.  The sentinel has
\* none.
DefinedSymbols == {"panic"}

\* The sentinel function evaluated by the constant evaluator: it panics with
\* its argument.
crate_build_error(msg) == [kind |-> "panic", text |-> msg]

\* The object code of a translated call site: what is left of the
\* conditional, the symbols its surviving calls refer to, and, for a const
\* site, the value computed at translation time.
Entry(site, c, refs, ret) ==
    [ctx |-> site.ctx, prov |-> Provable(site), macro |-> site.inv.macro,
     fn |-> site.fn, a |-> site.a, guarded |-> c.guarded, negated |-> c.negated,
     refs |-> refs, ret |-> ret]

\* The value the enclosing function returns when the sentinel is not called.
Returned(fn, a) == IF fn = "foo" THEN foo(a) ELSE None

\* The record of one evaluation.
Evaluation(phase, macro, fn, a, v, called) ==
    [phase |-> phase, macro |-> macro, fn |-> fn, a |-> a, v |-> v,
     called |-> called, ret |-> IF called THEN None ELSE Returned(fn, a)]

\* --------------------------------------------------------------- actions

\* The translator reaches the macro invocation of call site s and expands it.
Expand(s) ==
    /\ pc = "source"
    /\ Len(object) < MaxSites
    /\ cur' = <<s>>
    /\ code' = <<MacroExpand(s)>>
    /\ eval' = <<>>
    /\ pc' = "expanded"
    /\ UNCHANGED <<object, outcome, diag, artifact, expA, expB>>

\* The constant evaluator executes the expansion of a const call site.
ConstEval ==
    /\ pc = "expanded"
    /\ cur[1].ctx = "const"
    /\ LET s == cur[1]
           c == code[1]
           m == s.inv.macro
       IN \E v \in GuardVals(s) :
            LET called == Called(m, c, v)
            IN /\ eval' = <<Evaluation("const", m, s.fn, s.a, v, called)>>
               /\ IF called
                  THEN /\ outcome' = "const_eval_failure"
                       /\ diag' = <<crate_build_error(c.call.arg)>>
                       /\ pc' = "done"
                       /\ UNCHANGED <<cur, code, object>>
                  ELSE /\ object' = Append(object, Entry(s, c, {}, Returned(s.fn, s.a)))
                       /\ cur' = <<>>
                       /\ code' = <<>>
                       /\ pc' = "source"
                       /\ UNCHANGED <<outcome, diag>>
    /\ UNCHANGED <<artifact, expA, expB>>

\* The optimizer removes the call of a compiled call site when no value the
\* guarding condition can take reaches it; else the reference survives.
Optimize ==
    /\ pc = "expanded"
    /\ cur[1].ctx = "compiled"
    /\ LET s == cur[1]
           c == code[1]
           survives == \E v \in GuardVals(s) : Called(s.inv.macro, c, v)
           refs == IF survives THEN {c.call.callee} ELSE {}
       IN object' = Append(object, Entry(s, c, refs, None))
    /\ cur' = <<>>
    /\ code' = <<>>
    /\ pc' = "source"
    /\ UNCHANGED <<outcome, diag, artifact, eval, expA, expB>>

\* The symbols the object code refers to that the image does not define.
Undefined(obj) ==
    UNION { obj[i].refs : i \in 1..Len(obj) } \ DefinedSymbols

\* The linker resolves the object code's references.
Link ==
    /\ pc = "source"
    /\ object # <<>>
    /\ IF Undefined(object) # {}
       THEN /\ outcome' = "link_failure"
            /\ diag' = <<[kind |-> "undefined reference",
                          text |-> CHOOSE y \in Undefined(object) : TRUE]>>
            /\ UNCHANGED artifact
       ELSE /\ outcome' = "success"
            /\ artifact' = object
            /\ UNCHANGED diag
    /\ pc' = "done"
    /\ UNCHANGED <<cur, code, object, eval, expA, expB>>

\* The produced image runs the code of its i-th call site.
Run(i) ==
    /\ pc = "done"
    /\ outcome = "success"
    /\ i \in 1..Len(artifact)
    /\ artifact[i].ctx = "compiled"
    /\ LET e == artifact[i]
       IN \E v \in (IF e.prov = "true" THEN {TRUE}
                    ELSE IF e.prov = "false" THEN {FALSE} ELSE BOOLEAN) :
            eval' = <<Evaluation("runtime", e.macro, e.fn, e.a, v,
                                 e.refs # {} /\ Called(e.macro, e, v))>>
    /\ UNCHANGED <<pc, cur, code, object, outcome, diag, artifact, expA, expB>>

Next ==
    \/ \E s \in Sites : Expand(s)
    \/ ConstEval
    \/ Optimize
    \/ Link
    \/ \E i \in 1..MaxSites : Run(i)

Spec == Init /\ [][Next]_vars

\* ------------------------------------------ two expansions of invocations

\* One compilation expands the invocation of call site s.
ExpandFirst(s) ==
    /\ expA = <<>>
    /\ expA' = <<[site |-> s, msg |-> MacroExpand(s).call.arg]>>
    /\ UNCHANGED <<build, expB>>

\* Another compilation expands the invocation of call site s.
ExpandSecond(s) ==
    /\ expA # <<>>
    /\ expB = <<>>
    /\ expB' = <<[site |-> s, msg |-> MacroExpand(s).call.arg]>>
    /\ UNCHANGED <<build, expA>>

NextExpand ==
    \/ \E s \in Sites : ExpandFirst(s)
    \/ \E s \in Sites : ExpandSecond(s)

SpecExpand == Init /\ [][NextExpand]_vars

\* ----------------------------------------------------------------- claims

\* The site whose translation is under way or has failed.
CurIs(macro, params) ==
    /\ cur # <<>>
    /\ cur[1].inv.macro = macro
    /\ DOMAIN cur[1].inv.args = params

\* The text stringify!($line) leaves in a message: `line` is bound by no arm.
LineText == "$line"

\* C1: every evaluation of a build_assert! expansion, by the constant
\* evaluator or by the running image, calls the sentinel if and only if the
\* condition evaluated to false; an evaluation under a true condition leaves
\* no failure behind (the build has not failed in constant evaluation and
\* there is no panic diagnostic).
C1_CalledIffConditionFalse ==
    (eval # <<>> /\ eval[1].macro = "build_assert") =>
        /\ eval[1].called <=> ~eval[1].v
        /\ eval[1].v =>
             /\ outcome # "const_eval_failure"
             /\ \A i \in 1..Len(diag) : diag[i].kind # "panic"

C1_Witness ==
    /\ CurIs("build_assert", {"cond", "msg", "context"})
    /\ eval # <<>>
    /\ eval[1].macro = "build_assert"
    /\ ~eval[1].v
    /\ eval[1].called

\* C2: a build that holds a compiled call site whose condition the optimizer
\* cannot resolve never has an artifact, and when it is over without a
\* constant-evaluation failure (so, in particular, every build made of
\* compiled code only) it has ended in a link failure whose diagnostic names
\* the sentinel as the undefined reference.
C2_UnresolvedFailsToLink ==
    (\E i \in 1..Len(object) :
        object[i].ctx = "compiled" /\ object[i].prov = "unknown") =>
        /\ artifact = <<>>
        /\ (pc = "done" /\ outcome # "const_eval_failure") =>
             /\ outcome = "link_failure"
             /\ diag = <<[kind |-> "undefined reference", text |-> Sentinel]>>

C2_Witness ==
    /\ pc = "done"
    /\ outcome = "link_failure"
    /\ Len(object) = 1
    /\ object[1].prov = "unknown"
    /\ object[1].macro = "build_assert"

\* C3: when the build is over and the condition of every call site was
\* provably true, the build has succeeded and no call site of the artifact
\* holds a call (to the sentinel or otherwise).
C3_ProvablyTrueBuilds ==
    (/\ pc = "done"
     /\ cur # <<>> => Provable(cur[1]) = "true"
     /\ \A i \in 1..Len(object) : object[i].prov = "true") =>
        /\ outcome = "success"
        /\ artifact = object
        /\ \A i \in 1..Len(artifact) : artifact[i].refs = {}

C3_Witness ==
    /\ outcome = "success"
    /\ Len(artifact) = MaxSites
    /\ \A i \in 1..Len(artifact) :
           /\ artifact[i].macro = "build_assert"
           /\ artifact[i].ctx = "compiled"
           /\ artifact[i].prov = "true"

\* C4: when the constant evaluator has executed a build_error! expansion, or
\* a build_assert! expansion under a false condition (either way the guarding
\* condition evaluated to false), the build has failed in constant
\* evaluation with a panic whose text is the argument of the expansion's
\* sentinel call, no value was returned, the call site did not reach the
\* object code and nothing further can happen.
C4_ConstContextPanics ==
    (eval # <<>> /\ eval[1].phase = "const" /\ ~eval[1].v) =>
        /\ eval[1].called
        /\ eval[1].ret = None
        /\ outcome = "const_eval_failure"
        /\ pc = "done"
        /\ cur # <<>> /\ code # <<>>
        /\ diag = <<[kind |-> "panic", text |-> code[1].call.arg]>>
        /\ artifact = <<>>
        /\ ~ENABLED Next

C4_Witness ==
    /\ outcome = "const_eval_failure"
    /\ CurIs("build_error", {"msg"})
    /\ cur[1].fn = "plain"
    /\ Len(object) = 1
    /\ diag # <<>>
    /\ diag[1].kind = "panic"

\* C5: a finished build has exactly one of the three outcomes, each with its
\* own diagnostic; only a successful build has an artifact; no call site of
\* an artifact holds a call; and no evaluation by a running image calls the
\* sentinel.
C5_OutcomesAndNoRuntimeCall ==
    /\ outcome \in {"building", "success", "const_eval_failure", "link_failure"}
    /\ pc = "done" <=> outcome # "building"
    /\ outcome = "success" =>
         artifact = object /\ artifact # <<>> /\ diag = <<>>
    /\ outcome = "const_eval_failure" =>
         artifact = <<>> /\ Len(diag) = 1 /\ diag[1].kind = "panic"
    /\ outcome = "link_failure" =>
         artifact = <<>> /\ Len(diag) = 1 /\ diag[1].kind = "undefined reference"
    /\ outcome = "building" => artifact = <<>> /\ diag = <<>>
    /\ \A i \in 1..Len(artifact) : artifact[i].refs = {}
    /\ (eval # <<>> /\ eval[1].phase = "runtime") => ~eval[1].called

C5_Witness ==
    /\ outcome = "success"
    /\ Len(artifact) = MaxSites
    /\ artifact[1].macro = "build_error"
    /\ eval # <<>>
    /\ eval[1].phase = "runtime"
    /\ eval[1].macro = "build_assert"

C7_MessageCarriesLineNumber ==
    (CurIs("build_error", {"msg"}) /\ code # <<>>) =>
        code[1].call.arg =
            "[Build Error] " \o cur[1].inv.args.msg \o " at line: "
                \o ToString(cur[1].line)

\* The fixed message of the zero-argument form.
DefaultMessage == ""

\* C8: the expansion of a zero-argument build_error! is, at every call site,
\* the unconditional call of the sentinel with the fixed default message,
\* and once the constant evaluator has executed it the build has failed with
\* a panic carrying that message.
C8_ZeroArgDefaultMessage ==
    (CurIs("build_error", {}) /\ code # <<>>) =>
        /\ code[1] = [guarded |-> FALSE, negated |-> FALSE,
                      call |-> [callee |-> Sentinel, arg |-> DefaultMessage]]
        /\ eval # <<>> =>
             /\ outcome = "const_eval_failure"
             /\ diag = <<[kind |-> "panic", text |-> DefaultMessage]>>

C8_Witness ==
    /\ CurIs("build_error", {})
    /\ cur[1].line = MaxLine
    /\ outcome = "const_eval_failure"
    /\ diag = <<[kind |-> "panic", text |-> ""]>>

\* C9: a call foo(a) with a below the maximum leaves no reference to the
\* sentinel, evaluates (at translation time or in the running image) to
\* a + 1 without calling the sentinel, and a build made of such calls only
\* succeeds; a call foo(a) with a the maximum never yields a value: in const
\* context the evaluator panics, in compiled code the reference survives,
\* there is no artifact and a build that gets to linking fails to link.
C9_FooIncrementsOrFails ==
    /\ \A i \in 1..Len(object) :
         object[i].fn = "foo" =>
            IF object[i].a # MaxVal
            THEN /\ object[i].refs = {}
                 /\ object[i].ctx = "const" =>
                      object[i].ret = [some |-> TRUE, v |-> object[i].a + 1]
            ELSE /\ object[i].ctx = "compiled"
                 /\ object[i].refs = {Sentinel}
                 /\ artifact = <<>>
                 /\ (pc = "done" /\ outcome # "const_eval_failure") =>
                        outcome = "link_failure"
    /\ (eval # <<>> /\ eval[1].fn = "foo") =>
            IF eval[1].a # MaxVal
            THEN /\ ~eval[1].called
                 /\ eval[1].ret = [some |-> TRUE, v |-> eval[1].a + 1]
                 /\ outcome # "const_eval_failure"
            ELSE /\ eval[1].phase = "const"
                 /\ eval[1].called
                 /\ eval[1].ret = [some |-> FALSE, v |-> 0]
                 /\ outcome = "const_eval_failure"
    /\ (/\ pc = "done"
        /\ cur # <<>> => (cur[1].fn = "foo" /\ cur[1].a # MaxVal)
        /\ \A i \in 1..Len(object) :
               object[i].fn = "foo" /\ object[i].a # MaxVal) =>
            outcome = "success"

C9_Witness ==
    /\ outcome = "success"
    /\ eval # <<>>
    /\ eval[1].phase = "runtime"
    /\ eval[1].fn = "foo"
    /\ eval[1].a = MaxVal - 1
    /\ eval[1].ret = [some |-> TRUE, v |-> MaxVal]

====
